---- MODULE Spec2Model ----
(***************************************************************************)
(* Model of the rollout package: the Rollout writer (rollout.go), the      *)
(* FileBuffer with its flush timer (file.go) and the BufferWriter          *)
(* (buffer.go).                                                            *)
(*                                                                         *)
(* Spec   : callers running Write / Flush / Close on one Rollout over the  *)
(*          built-in FileBuffer, the timers of the buffers and the clock.  *)
(* BWSpec : one BufferWriter over a sink whose every answer is free.       *)
(***************************************************************************)
EXTENDS Integers, Sequences, FiniteSets, TLC

\* ------------------------------------------------------------------ bounds
NumProcs == 2          \* concurrent callers of the Rollout
MaxWrites == 2         \* Write calls begun in one behaviour
MaxLen == 3            \* longest payload of a Rollout Write
MaxBuffers == 2        \* buffers the factory hands out in one behaviour
MaxTime == 1           \* last reading of the clock
BufferSize == 2        \* Options.BufferSize of the modelled writer
MaxCap == 3            \* BWSpec: largest capacity besides the test's
MaxWriteLen == 4       \* BWSpec: longest input besides the test's
MaxOps == 3            \* BWSpec: Write and Flush calls in one behaviour
MaxSecs == 4           \* PosSpec: seconds before and after a day boundary
MaxInterval == 3       \* PosSpec: longest interval besides a day
MaxZone == 2           \* PosSpec: largest zone offset, east or west

\* ------------------------------------------------------- program constants
defaultBufferSize == 4096
RotateSecondly == 1
RotateDaily == 86400
TestCap == 10          \* NewWriterSize(buf, 10) of TestFileBufferWrite

\* The input lengths of TestFileBufferWrite: "1234567890", "12345",
\* "abcdefghijklmno".
TestLens == {10, 5, 15}

Nil == "nil"
ErrClosed == "ErrClosed"            \* rollout.go: ErrClosed
ErrShortWrite == "ErrShortWrite"    \* io.ErrShortWrite
ErrOpen == "ErrOpen"                \* the error of a failed os.OpenFile
ErrFileClosed == "ErrFileClosed"    \* os.File.Write after os.File.Close
ErrSink == "ErrSink"                \* any other failure of the sink

Procs == 1..NumProcs
BufIds == 1..MaxBuffers

Min(a, b) == IF a < b THEN a ELSE b

\* Go's integer division truncates towards zero.
GoDiv(a, b) == IF a >= 0 THEN a \div b ELSE -((-a) \div b)

\* p[n:] and p[:n] of a Go slice.
Drop(p, n) == SubSeq(p, n + 1, Len(p))
Take(p, n) == SubSeq(p, 1, n)

\* ------------------------------------------------------------ BufferWriter
\* A BufferWriter is [err, buf, size]: buf is b.buf[0:b.n], size is
\* len(b.buf). The bytes it hands to its sink come back as "out".

NewWriterSize(size) ==
    [err |-> Nil, buf |-> << >>,
     size |-> IF size <= 0 THEN defaultBufferSize ELSE size]

Available(b) == b.size - Len(b.buf)

Buffered(b) == Len(b.buf)

\* CopyLen of a copy that takes all of p, whatever room is left.
CopyLenWhole(b, p) == Len(p)

\* copy(b.buf[b.n:], p): the number of bytes copied.
CopyLen(b, p) == Min(Len(p), Available(b))

\* BWFlush without "b.n = 0" after a write that went through.
BWFlushKeepsBytes(b, k, e) ==
    IF b.err # Nil \/ Len(b.buf) = 0
    THEN [b |-> b, out |-> << >>, err |-> b.err, io |-> FALSE]
    ELSE LET err == IF k < Len(b.buf) /\ e = Nil THEN ErrShortWrite ELSE e
         IN  [b |-> [b EXCEPT !.buf = IF err # Nil THEN Drop(b.buf, k) ELSE @,
                              !.err = err],
              out |-> Take(b.buf, k), err |-> err, io |-> TRUE]

\* BufferWriter.Flush. (k, e) is what the sink answers to Write(b.buf[0:b.n]),
\* if it is asked: k bytes accepted, error e.
BWFlush(b, k, e) ==
    IF b.err # Nil THEN [b |-> b, out |-> << >>, err |-> b.err, io |-> FALSE]
    ELSE IF Len(b.buf) = 0 THEN [b |-> b, out |-> << >>, err |-> Nil, io |-> FALSE]
    ELSE LET err == IF k < Len(b.buf) /\ e = Nil THEN ErrShortWrite ELSE e
         IN  IF err # Nil
             THEN [b |-> [b EXCEPT
                            !.buf = IF k > 0 /\ k < Len(b.buf)
                                    THEN Drop(b.buf, k)
                                    ELSE Take(b.buf, Len(b.buf) - k),
                            !.err = err],
                   out |-> Take(b.buf, k), err |-> err, io |-> TRUE]
             ELSE [b |-> [b EXCEPT !.buf = << >>],
                   out |-> Take(b.buf, k), err |-> Nil, io |-> TRUE]

\* BWAppend with copy(b.buf, p): the offset b.n forgotten.
BWAppendOverwrites(b, p) ==
    LET n == Min(Len(p), b.size)
    IN  [b |-> [b EXCEPT !.buf = Take(p, n) \o Drop(b.buf, n)],
         out |-> << >>, nn |-> n, err |-> Nil, hang |-> FALSE]

\* The branch of Write taken when the input fits or an error is latched:
\* n := copy(b.buf[b.n:], p); b.n += n; return n, nil.
BWAppend(b, p) ==
    LET n == CopyLen(b, p)
    IN  [b |-> [b EXCEPT !.buf = b.buf \o Take(p, n)],
         out |-> << >>, nn |-> n, err |-> Nil, hang |-> FALSE]

\* BWDirect that copies into the buffer what fits instead of writing to the
\* sink.
BWDirectViaBuffer(b, p, k, e) ==
    [b |-> [b EXCEPT !.buf = Take(p, Min(Len(p), b.size))], out |-> << >>,
     nn |-> Min(Len(p), b.size), err |-> Nil, hang |-> FALSE]

\* The large write into an empty buffer: nn, b.err = b.wr.Write(p).
BWDirect(b, p, k, e) ==
    [b |-> [b EXCEPT !.err = e], out |-> Take(p, k), nn |-> k,
     err |-> e, hang |-> FALSE]

\* BWLoopIter that flushes only a full buffer, as bufio.Writer does.
BWLoopIterFlushWhenFull(b, p, nn, k, e) ==
    LET n == CopyLen(b, p)
        c == [b EXCEPT !.buf = b.buf \o Take(p, n)]
        f == IF Available(c) = 0 THEN BWFlush(c, k, e)
             ELSE [b |-> c, out |-> << >>, err |-> Nil, io |-> FALSE]
    IN  [b |-> f.b, out |-> f.out, nn |-> nn + n, p |-> Drop(p, n)]

\* One turn of the loop "for len(p) > 0": copy, Flush, nn += n, p = p[n:].
BWLoopIter(b, p, nn, k, e) ==
    LET n == CopyLen(b, p)
        f == BWFlush([b EXCEPT !.buf = b.buf \o Take(p, n)], k, e)
    IN  [b |-> f.b, out |-> f.out, nn |-> nn + n, p |-> Drop(p, n)]

\* What a sink in mode m answers to a Write of d: everything when m is Nil,
\* nothing and the error m otherwise.
SinkK(m, d) == IF m = Nil THEN Len(d) ELSE 0

\* The loop of Write over a sink in mode m, to its end. A turn that copies
\* nothing while an error is latched changes nothing: the loop never ends.
RECURSIVE BWLoop(_, _, _, _, _)
BWLoop(b, p, nn, out, m) ==
    IF Len(p) = 0
    THEN [b |-> b, out |-> out, nn |-> nn,
          err |-> b.err, hang |-> FALSE]
    ELSE IF CopyLen(b, p) = 0 /\ b.err # Nil
    THEN [b |-> b, out |-> out, nn |-> nn, err |-> b.err, hang |-> TRUE]
    ELSE LET it == BWLoopIter(b, p, nn,
                              SinkK(m, b.buf \o Take(p, CopyLen(b, p))), m)
         IN  BWLoop(it.b, it.p, it.nn, out \o it.out, m)

\* BufferWriter.Write over a sink in mode m.
BWWrite(b, p, m) ==
    IF Len(p) > Available(b) /\ b.err = Nil
    THEN IF Buffered(b) = 0
         THEN BWDirect(b, p, SinkK(m, p), m)
         ELSE BWLoop(b, p, 0, << >>, m)
    ELSE BWAppend(b, p)

\* -------------------------------------------------------------- FileBuffer
\* A FileBuffer is [w, sink, fclosed, timer, cb, closes]: w its BufferWriter,
\* sink the bytes its file has received, fclosed whether the file is closed,
\* timer the state of the time.Timer b.timer refers to ("armed", "fired",
\* "stopped"), cb the position of the running timer callback ("none", or
\* "flush": it has seen bytes buffered and is about to call b.Flush) and
\* closes the number of Close calls it got.

\* NewFileBuffer after a successful os.OpenFile: the writer, and the first
\* timer armed by flushAtInterval.
NewFileBuffer(size) ==
    [w |-> NewWriterSize(size), sink |-> << >>, fclosed |-> FALSE,
     timer |-> "armed", cb |-> "none", closes |-> 0]

\* How the file of fb answers a Write: a closed file refuses, a failed
\* device (broken) refuses, otherwise everything is taken.
FileMode(fb, broken) ==
    IF fb.fclosed THEN ErrFileClosed ELSE IF broken THEN ErrSink ELSE Nil

\* FileBuffer.Write: b.w.Write(p) under b.mux.
FBWrite(fb, p, broken) ==
    LET r == BWWrite(fb.w, p, FileMode(fb, broken))
    IN  [fb |-> [fb EXCEPT !.w = r.b, !.sink = fb.sink \o r.out],
         nn |-> r.nn, err |-> r.err, hang |-> r.hang]

\* FileBuffer.Flush: b.w.Flush() under b.mux.
FBFlush(fb, broken) ==
    LET m == FileMode(fb, broken)
        r == BWFlush(fb.w, SinkK(m, fb.w.buf), m)
    IN  [fb |-> [fb EXCEPT !.w = r.b, !.sink = fb.sink \o r.out],
         err |-> r.err]

\* timer.Stop(): a timer that has not fired yet never fires; one that has
\* fired is left as it is.
TimerStop(t) == IF t = "armed" THEN "stopped" ELSE t

\* FileBuffer.Close: stop the timer, b.w.Flush() (its result dropped), then
\* b.f.Close(), which fails on a file already closed.
FBClose(fb, broken) ==
    LET fl == FBFlush(fb, broken).fb
    IN  [fb |-> [fl EXCEPT !.timer = TimerStop(fb.timer), !.fclosed = TRUE,
                           !.closes = fb.closes + 1],
         err |-> IF fb.fclosed THEN ErrFileClosed ELSE Nil]

\* ----------------------------------------------------------------- Rollout
VARIABLES
    closed,     \* r.closed
    rbuf,       \* r.buf: [id, pos]; id = 0 is nil, else an index of buffers
    buffers,    \* the FileBuffers the factory has returned, in order
    now,        \* the reading of r.clock
    broken,     \* the device under the files has failed
    stuck,      \* 0, or the buffer whose Write never returns (it holds
                \* b.mux and r.mux)
    pc,         \* per caller: "idle", "locking" (in Write, past the closed
                \* check, before r.mux.Lock) or "stuck"
    pend,       \* per caller in Write: [p, after], the input and whether
                \* a Close had returned when the call began
    last,       \* the call that returned last and what it did
    nwrites,    \* Write calls begun
    closeReturned,  \* a Close call has returned
    taken       \* per buffer: the inputs of the Writes that returned
                \* (len(p), nil) on it, one after the other

rvars == <<closed, rbuf, buffers, now, broken, stuck, pc, pend, last,
           nwrites, closeReturned, taken>>

\* The state of BWSpec: one BufferWriter and its sink.
VARIABLES
    w,          \* the BufferWriter
    wsink,      \* the bytes its sink has accepted, in order
    wpc,        \* "idle", or "loop": inside the loop of Write
    wp,         \* in the loop: p, the input not yet consumed
    wret,       \* [nn, err]: nn so far in the loop, else the last return
    wops,       \* the calls made: <<"Write", len(p)>> or <<"Flush", 0>>
    wfault      \* the sink has answered with an error or a short count

bvars == <<w, wsink, wpc, wp, wret, wops, wfault>>

\* The state of PosSpec: one call of r.position.
VARIABLES
    ptime,      \* t.Unix() of the time handed to position
    pinterval,  \* r.interval
    pzone,      \* r.zoneOffset
    ppos,       \* what position has returned
    pdone       \* position has returned

pvars == <<ptime, pinterval, pzone, ppos, pdone>>

vars == <<rvars, bvars, pvars>>

NoBuf == [id |-> 0, pos |-> 0]

\* r.position(t) for a clock reading of t unix seconds.
position(t, interval, zoneOffset) ==
    LET timestamp == IF interval >= RotateDaily THEN t + zoneOffset ELSE t
    IN  GoDiv(timestamp, interval)

\* The input of a Write, n bytes long: every byte tells its place and the
\* length of the input it belongs to.
Payload(n) == [i \in 1..n |-> <<n, i>>]

NoPend == [p |-> << >>, after |-> FALSE]

\* The record of a returned call: the operation, whether a Close had
\* returned when it began, its results and what it called, in order.
Returned(op, after, n, err, ev) ==
    [op |-> op, after |-> after, n |-> n, err |-> err, ev |-> ev]

\* WriteRefused without the check.
WriteRefusedNever(isClosed) == FALSE

\* The closed check of Write under r.mux.RLock: TRUE when Write returns
\* (0, ErrClosed) at once.
WriteRefused(isClosed) == isClosed

\* FactoryError that drops the buffer in use before it returns.
FactoryErrorDropsBuffer(rb, bs) ==
    [rbuf |-> NoBuf, buffers |-> bs, n |-> 0, err |-> ErrOpen,
     hang |-> FALSE, ev |-> << <<"factory", 0>> >>]

\* Write, lines 205-207: the factory has failed; return 0, err.
FactoryError(rb, bs) ==
    [rbuf |-> rb, buffers |-> bs, n |-> 0, err |-> ErrOpen, hang |-> FALSE,
     ev |-> << <<"factory", 0>> >>]

\* Swap that leaves the old buffer open.
SwapKeepsOld(rb, bs, pos, brk) ==
    [rbuf |-> [id |-> Len(bs) + 1, pos |-> pos],
     buffers |-> Append(bs, NewFileBuffer(BufferSize)),
     ev |-> << <<"factory", Len(bs) + 1>> >>]

\* Write, lines 204 and 209-214: the factory has returned a buffer; it becomes
\* r.buf and the old one, if any, is closed. ev lists the calls made.
Swap(rb, bs, pos, brk) ==
    LET new == Len(bs) + 1
        bs1 == Append(bs, NewFileBuffer(BufferSize))
    IN  [rbuf |-> [id |-> new, pos |-> pos],
         buffers |-> IF rb.id # 0
                     THEN [bs1 EXCEPT ![rb.id] = FBClose(@, brk).fb]
                     ELSE bs1,
         ev |-> << <<"factory", new>> >>
                \o (IF rb.id # 0 THEN << <<"close", rb.id>> >> ELSE << >>)]

\* The part of Write under r.mux.Lock, lines 200-217. rb is r.buf, bs the
\* buffers, p the input, pos the bucket of the clock reading, ok whether the
\* factory succeeds if it is called, brk whether the device has failed.
\* ev lists the calls made, in order.
LockedWrite(rb, bs, p, pos, ok, brk) ==
    IF (rb.id = 0 \/ rb.pos # pos) /\ ~ok
    THEN FactoryError(rb, bs)
    ELSE LET sw == IF rb.id = 0 \/ rb.pos # pos
                   THEN Swap(rb, bs, pos, brk)
                   ELSE [rbuf |-> rb, buffers |-> bs, ev |-> << >>]
             to == sw.rbuf.id
             wr == FBWrite(sw.buffers[to], p, brk)
         IN  [rbuf |-> sw.rbuf,
              buffers |-> [sw.buffers EXCEPT ![to] = wr.fb],
              n |-> wr.nn, err |-> wr.err, hang |-> wr.hang,
              ev |-> sw.ev \o << <<"write", to>> >>]

\* Flush under r.mux.RLock.
LockedFlush(rb, bs, brk) ==
    IF rb.id = 0
    THEN [buffers |-> bs, err |-> Nil, ev |-> << >>]
    ELSE LET f == FBFlush(bs[rb.id], brk)
         IN  [buffers |-> [bs EXCEPT ![rb.id] = f.fb], err |-> f.err,
              ev |-> << <<"flush", rb.id>> >>]

\* LockedClose without "if r.closed { return nil }".
LockedCloseUnguarded(cl, rb, bs, brk) ==
    IF rb.id = 0
    THEN [closed |-> TRUE, buffers |-> bs, err |-> Nil, ev |-> << >>]
    ELSE LET c == FBClose(bs[rb.id], brk)
         IN  [closed |-> TRUE, buffers |-> [bs EXCEPT ![rb.id] = c.fb],
              err |-> c.err, ev |-> << <<"close", rb.id>> >>]

\* Close under r.mux.Lock.
LockedClose(cl, rb, bs, brk) ==
    IF cl
    THEN [closed |-> cl, buffers |-> bs, err |-> Nil, ev |-> << >>]
    ELSE IF rb.id = 0
    THEN [closed |-> TRUE, buffers |-> bs, err |-> Nil, ev |-> << >>]
    ELSE LET c == FBClose(bs[rb.id], brk)
         IN  [closed |-> TRUE, buffers |-> [bs EXCEPT ![rb.id] = c.fb],
              err |-> c.err, ev |-> << <<"close", rb.id>> >>]

RInit ==
    /\ closed = FALSE
    /\ rbuf = NoBuf
    /\ buffers = << >>
    /\ now = 0
    /\ broken = FALSE
    /\ stuck = 0
    /\ pc = [c \in Procs |-> "idle"]
    /\ pend = [c \in Procs |-> NoPend]
    /\ last = Returned("none", FALSE, 0, Nil, << >>)
    /\ nwrites = 0
    /\ closeReturned = FALSE
    /\ taken = [i \in BufIds |-> << >>]

\* Write, lines 190-195: the closed check under the read lock.
WriteBegin(c, len) ==
    /\ pc[c] = "idle"
    /\ stuck = 0
    /\ nwrites < MaxWrites
    /\ nwrites' = nwrites + 1
    /\ IF WriteRefused(closed)
       THEN /\ last' = Returned("Write", closeReturned, 0, ErrClosed, << >>)
            /\ UNCHANGED <<pc, pend>>
       ELSE /\ pend' = [pend EXCEPT ![c] = [p |-> Payload(len),
                                            after |-> closeReturned]]
            /\ pc' = [pc EXCEPT ![c] = "locking"]
            /\ last' = last
    /\ UNCHANGED <<closed, rbuf, buffers, now, broken, stuck, closeReturned,
                   taken>>
    /\ UNCHANGED <<bvars, pvars>>

\* Write, lines 197-217: the rest, under the write lock.
WriteBody(c) ==
    /\ pc[c] = "locking"
    /\ stuck = 0
    /\ \E ok \in BOOLEAN :
         /\ ok => Len(buffers) < MaxBuffers
         /\ LET r == LockedWrite(rbuf, buffers, pend[c].p,
                                 position(now, RotateSecondly, 0), ok, broken)
            IN  /\ rbuf' = r.rbuf
                /\ buffers' = r.buffers
                /\ stuck' = IF r.hang THEN r.rbuf.id ELSE 0
                /\ pc' = [pc EXCEPT ![c] = IF r.hang THEN "stuck" ELSE "idle"]
                /\ pend' = [pend EXCEPT ![c] = IF r.hang THEN @ ELSE NoPend]
                /\ last' = IF r.hang THEN last
                           ELSE Returned("Write", pend[c].after, r.n,
                                         r.err, r.ev)
                /\ taken' = IF ~r.hang /\ r.err = Nil
                                /\ r.n = Len(pend[c].p)
                             THEN [taken EXCEPT ![r.rbuf.id] =
                                     @ \o pend[c].p]
                             ELSE taken
    /\ UNCHANGED <<closed, now, broken, nwrites, closeReturned>>
    /\ UNCHANGED <<bvars, pvars>>

\* Rollout.Flush.
Flush(c) ==
    /\ pc[c] = "idle"
    /\ stuck = 0
    /\ LET r == LockedFlush(rbuf, buffers, broken)
       IN  /\ buffers' = r.buffers
           /\ last' = Returned("Flush", closeReturned, 0, r.err, r.ev)
    /\ UNCHANGED <<closed, rbuf, now, broken, stuck, pc, pend, nwrites,
                   closeReturned, taken>>
    /\ UNCHANGED <<bvars, pvars>>

\* Rollout.Close.
Close(c) ==
    /\ pc[c] = "idle"
    /\ stuck = 0
    /\ LET r == LockedClose(closed, rbuf, buffers, broken)
       IN  /\ closed' = r.closed
           /\ buffers' = r.buffers
           /\ last' = Returned("Close", closeReturned, 0, r.err, r.ev)
    /\ closeReturned' = TRUE
    /\ UNCHANGED <<rbuf, now, broken, stuck, pc, pend, nwrites, taken>>
    /\ UNCHANGED <<bvars, pvars>>

\* The timer of buffer i fires and its callback starts, lines 345-351: it
\* reads b.w.Buffered() > 0 under b.mux.RLock. With nothing buffered it goes
\* straight to b.flushAtInterval(interval), which makes b.timer a new timer.
TimerFire(i) ==
    /\ i \in 1..Len(buffers)
    /\ buffers[i].timer = "armed"
    /\ buffers[i].cb = "none"
    /\ stuck # i
    /\ buffers' = IF Buffered(buffers[i].w) > 0
                  THEN [buffers EXCEPT ![i].timer = "fired",
                                       ![i].cb = "flush"]
                  ELSE buffers
    /\ UNCHANGED <<closed, rbuf, now, broken, stuck, pc, pend, last, nwrites,
                   closeReturned, taken>>
    /\ UNCHANGED <<bvars, pvars>>

\* TimerFlush without the call of b.flushAtInterval(interval) at its end.
TimerFlushNoRearm(i) ==
    /\ i \in 1..Len(buffers)
    /\ buffers[i].cb = "flush"
    /\ stuck # i
    /\ buffers' = [buffers EXCEPT ![i] =
                     [FBFlush(@, broken).fb EXCEPT !.cb = "none"]]
    /\ UNCHANGED <<closed, rbuf, now, broken, stuck, pc, pend, last, nwrites,
                   closeReturned, taken>>
    /\ UNCHANGED <<bvars, pvars>>

\* The callback goes on, lines 352-355: b.Flush(), then
\* b.flushAtInterval(interval), which makes b.timer a new timer.
TimerFlush(i) ==
    /\ i \in 1..Len(buffers)
    /\ buffers[i].cb = "flush"
    /\ stuck # i
    /\ buffers' = [buffers EXCEPT ![i] =
                     [FBFlush(@, broken).fb EXCEPT !.timer = "armed",
                                                   !.cb = "none"]]
    /\ UNCHANGED <<closed, rbuf, now, broken, stuck, pc, pend, last, nwrites,
                   closeReturned, taken>>
    /\ UNCHANGED <<bvars, pvars>>

\* The clock moves on.
ClockAdvance ==
    /\ now < MaxTime
    /\ now' = now + 1
    /\ UNCHANGED <<closed, rbuf, buffers, broken, stuck, pc, pend, last, nwrites,
                   closeReturned, taken>>
    /\ UNCHANGED <<bvars, pvars>>

\* The device under the files fails, for good.
SinkBreak ==
    /\ ~broken
    /\ broken' = TRUE
    /\ UNCHANGED <<closed, rbuf, buffers, now, stuck, pc, pend, last, nwrites,
                   closeReturned, taken>>
    /\ UNCHANGED <<bvars, pvars>>

Next ==
    \/ \E c \in Procs, len \in 1..MaxLen : WriteBegin(c, len)
    \/ \E c \in Procs : WriteBody(c)
    \/ \E c \in Procs : Flush(c)
    \/ \E c \in Procs : Close(c)
    \/ \E i \in BufIds : TimerFire(i)
    \/ \E i \in BufIds : TimerFlush(i)
    \/ ClockAdvance
    \/ SinkBreak

\* The BufferWriter of BWSpec is not used by the Rollout: its FileBuffers
\* carry their own.
WIdle ==
    /\ w = NewWriterSize(0)
    /\ wsink = << >>
    /\ wpc = "idle"
    /\ wp = << >>
    /\ wret = [nn |-> 0, err |-> Nil]
    /\ wops = << >>
    /\ wfault = FALSE

\* The Rollout of Spec rotates every second and runs in UTC; position is
\* called inside its Write.
PIdle ==
    /\ ptime = 0
    /\ pinterval = RotateSecondly
    /\ pzone = 0
    /\ ppos = 0
    /\ pdone = FALSE

Init == RInit /\ WIdle /\ PIdle

Spec == Init /\ [][Next]_vars

\* Spec with the scheduling of the timers: time.AfterFunc runs the callback
\* of an armed timer once the interval is over, and a callback that has
\* started goes on as soon as b.mux is free.
FairSpec ==
    /\ Spec
    /\ \A i \in BufIds : WF_vars(TimerFire(i)) /\ WF_vars(TimerFlush(i))

\* ------------------------------------------------------------------ BWSpec
\* The capacities tried: every one up to MaxCap, and the test's.
Caps == (1..MaxCap) \cup {TestCap}

\* The input lengths tried on a BufferWriter of the given capacity: the
\* test's on the test's capacity, every length up to MaxWriteLen otherwise.
Lens(size) == IF size = TestCap THEN TestLens ELSE 0..MaxWriteLen

\* The bytes written so far by the calls of ops.
RECURSIVE Written(_)
Written(ops) ==
    IF ops = << >> THEN 0 ELSE ops[1][2] + Written(Tail(ops))

\* The input of the next Write, n bytes long: the bytes are numbered on
\* from the ones written before.
Input(ops, n) == [i \in 1..n |-> Written(ops) + i]

\* What a sink may answer to a Write of d: it accepts k bytes and returns
\* the error e.
Answers(d) == {[k |-> k, e |-> e] : k \in 0..Len(d), e \in {Nil, ErrSink}}

\* Whether the answer a to a Write of d is a failure or a short count.
Faulty(a, d) == a.e # Nil \/ a.k < Len(d)

BWInit ==
    /\ RInit
    /\ w \in {NewWriterSize(c) : c \in Caps}
    /\ wsink = << >>
    /\ wpc = "idle"
    /\ wp = << >>
    /\ wret = [nn |-> 0, err |-> Nil]
    /\ wops = << >>
    /\ wfault = FALSE
    /\ PIdle

\* Write is called with an input of len bytes, lines 245-270 but for the
\* turns of the loop.
BWCallWrite(len) ==
    /\ wpc = "idle"
    /\ Len(wops) < MaxOps
    /\ wops' = Append(wops, <<"Write", len>>)
    /\ LET p == Input(wops, len)
       IN  IF Len(p) > Available(w) /\ w.err = Nil
           THEN IF Buffered(w) = 0
                THEN \E a \in Answers(p) :
                       LET r == BWDirect(w, p, a.k, a.e)
                       IN  /\ w' = r.b
                           /\ wsink' = wsink \o r.out
                           /\ wret' = [nn |-> r.nn, err |-> r.err]
                           /\ wfault' = (wfault \/ Faulty(a, p))
                           /\ UNCHANGED <<wpc, wp>>
                ELSE /\ wpc' = "loop"
                     /\ wp' = p
                     /\ wret' = [nn |-> 0, err |-> Nil]
                     /\ UNCHANGED <<w, wsink, wfault>>
           ELSE LET r == BWAppend(w, p)
                IN  /\ w' = r.b
                    /\ wret' = [nn |-> r.nn, err |-> r.err]
                    /\ UNCHANGED <<wsink, wpc, wp, wfault>>
    /\ UNCHANGED <<rvars, pvars>>

\* One turn of the loop of Write, lines 253-259, and the return after the
\* last one, lines 261-264.
BWLoopStep ==
    /\ wpc = "loop"
    /\ LET d == w.buf \o Take(wp, CopyLen(w, wp))
       IN  \E a \in Answers(d) :
             LET it == BWLoopIter(w, wp, wret.nn, a.k, a.e)
                 io == w.err = Nil /\ Len(d) > 0
             IN  /\ w' = it.b
                 /\ wsink' = wsink \o it.out
                 /\ wp' = it.p
                 /\ wfault' = (wfault \/ (io /\ Faulty(a, d)))
                 /\ IF Len(it.p) > 0
                    THEN /\ wret' = [nn |-> it.nn, err |-> Nil]
                         /\ wpc' = "loop"
                    ELSE /\ wret' = [nn |-> it.nn, err |-> it.b.err]
                         /\ wpc' = "idle"
    /\ UNCHANGED <<wops, rvars, pvars>>

\* Flush is called, lines 212-233.
BWCallFlush ==
    /\ wpc = "idle"
    /\ Len(wops) < MaxOps
    /\ wops' = Append(wops, <<"Flush", 0>>)
    /\ \E a \in Answers(w.buf) :
         LET r == BWFlush(w, a.k, a.e)
         IN  /\ w' = r.b
             /\ wsink' = wsink \o r.out
             /\ wret' = [nn |-> 0, err |-> r.err]
             /\ wfault' = (wfault \/ (r.io /\ Faulty(a, w.buf)))
    /\ UNCHANGED <<wpc, wp, rvars, pvars>>

BWNext ==
    \/ \E len \in Lens(w.size) : BWCallWrite(len)
    \/ BWLoopStep
    \/ BWCallFlush

BWSpec == BWInit /\ [][BWNext]_vars

\* ----------------------------------------------------------------- PosSpec
\* New: a Rotation of 0 or less stands for RotateDaily.
NewInterval(rotation) == IF rotation <= 0 THEN RotateDaily ELSE rotation

\* The Rotation options tried: none, the short ones and a day.
Rotations == (0..MaxInterval) \cup {RotateDaily}

\* The clock readings tried, in unix seconds: around the epoch and around
\* the day boundaries before and after it.
Timestamps ==
    {d * RotateDaily + s : d \in -1..1, s \in -MaxSecs..MaxSecs}

\* The zone offsets tried, in seconds east of UTC.
Zones == -MaxZone..MaxZone

PosInit ==
    /\ RInit
    /\ WIdle
    /\ ptime \in Timestamps
    /\ pinterval \in {NewInterval(r) : r \in Rotations}
    /\ pzone \in Zones
    /\ ppos = 0
    /\ pdone = FALSE

\* r.position(t) is called.
PositionCall ==
    /\ ~pdone
    /\ ppos' = position(ptime, pinterval, pzone)
    /\ pdone' = TRUE
    /\ UNCHANGED <<ptime, pinterval, pzone, rvars, bvars>>

PosNext == PositionCall

PosSpec == PosInit /\ [][PosNext]_vars

\* ================================================================== claims

\* a is the beginning of b.
IsPrefix(a, b) == Len(a) <= Len(b) /\ Take(b, Len(a)) = a

\* Everything buffer i has: what its sink got, then what it still holds.
Stream(fb) == fb.sink \o fb.w.buf

\* No sink has failed: the device works and no BufferWriter has latched an
\* error.
NoSinkError ==
    /\ ~broken
    /\ \A i \in 1..Len(buffers) : buffers[i].w.err = Nil

\* The bucket of the clock reading.
Bucket == position(now, RotateSecondly, 0)

\* C1: a Write that begins after a Close has returned returns
\* (0, ErrClosed), and calls neither the factory nor Write on a buffer: it
\* never gets past the closed check.
C1_WriteAfterCloseRefused ==
    /\ \A c \in Procs : pc[c] # "idle" => ~pend[c].after
    /\ (last.op = "Write" /\ last.after)
          => (last.n = 0 /\ last.err = ErrClosed /\ last.ev = << >>)

\* C1: a Write that began after a Close has returned.
C1_Witness == last.op = "Write" /\ last.after /\ Len(buffers) > 0

\* C2, as stated: whenever a Close has just returned and no sink has failed,
\* the bytes of every Write that had returned (len(p), nil) are in the sink
\* of the buffer that took them.
C2_CloseDeliversAccepted ==
    (last.op = "Close" /\ NoSinkError)
       => \A i \in 1..Len(buffers) : IsPrefix(taken[i], buffers[i].sink)

\* C2, for the Close that closes the writer: what C2 says holds when the
\* first Close returns.
FirstCloseDelivers ==
    (last.op = "Close" /\ ~last.after /\ NoSinkError)
       => \A i \in 1..Len(buffers) : IsPrefix(taken[i], buffers[i].sink)

\* C3: a Write that returns (len(p), nil) on an open writer that has a
\* buffer. With the bucket changed it takes a new buffer from the factory,
\* then closes the old one, then writes; the old buffer gets no byte and
\* the new one gets the input. With the bucket unchanged it only writes to
\* the buffer in use: no factory call, no Close.
C3_Rotation ==
    [][\A c \in Procs :
         (/\ WriteBody(c)
          /\ pc'[c] = "idle"
          /\ ~closed
          /\ rbuf.id # 0
          /\ last'.err = Nil
          /\ last'.n = Len(pend[c].p))
         => IF rbuf.pos # Bucket
            THEN LET old == rbuf.id
                     new == rbuf'.id
                 IN  /\ new = Len(buffers) + 1
                     /\ Len(buffers') = new
                     /\ last'.ev = << <<"factory", new>>, <<"close", old>>,
                                      <<"write", new>> >>
                     /\ buffers'[old].closes = buffers[old].closes + 1
                     /\ buffers'[old].fclosed
                     /\ Stream(buffers'[old]) = Stream(buffers[old])
                     /\ Stream(buffers'[new]) = pend[c].p
            ELSE /\ rbuf' = rbuf
                 /\ Len(buffers') = Len(buffers)
                 /\ last'.ev = << <<"write", rbuf.id>> >>
                 /\ \A i \in 1..Len(buffers) :
                      buffers'[i].closes = buffers[i].closes
      ]_vars

\* C3: a Write has rotated an open writer: new buffer, old one closed once.
C3_Witness ==
    /\ ~closed
    /\ last.op = "Write"
    /\ last.err = Nil
    /\ last.ev = << <<"factory", 2>>, <<"close", 1>>, <<"write", 2>> >>
    /\ buffers[1].closes = 1

\* C4: the Close calls after the first return nil, call nothing and leave
\* the writer as it was; the first one sets closed and calls Close once on
\* the buffer in use, if there is one, and on no other.
C4_CloseIdempotent ==
    [][\A c \in Procs :
         Close(c)
         => IF closeReturned
            THEN /\ last'.err = Nil
                 /\ last'.ev = << >>
                 /\ UNCHANGED <<closed, rbuf, buffers>>
            ELSE /\ closed'
                 /\ rbuf' = rbuf
                 /\ IF rbuf.id = 0
                    THEN /\ buffers' = buffers
                         /\ last'.ev = << >>
                         /\ last'.err = Nil
                    ELSE /\ last'.ev = << <<"close", rbuf.id>> >>
                         /\ buffers'[rbuf.id].closes
                              = buffers[rbuf.id].closes + 1
                         /\ \A i \in 1..Len(buffers) :
                              i # rbuf.id => buffers'[i] = buffers[i]
      ]_vars

\* C4: a second Close has returned on a writer that had a buffer.
C4_Witness ==
    /\ last.op = "Close"
    /\ last.after
    /\ rbuf.id # 0
    /\ buffers[rbuf.id].closes = 1

\* C5: a Write whose factory call fails returns (0, that error) having
\* called nothing else, and leaves r.buf, every buffer and closed as they
\* were.
C5_FactoryErrorLeavesState ==
    [][\A c \in Procs :
         (/\ WriteBody(c)
          /\ pc'[c] = "idle"
          /\ Len(last'.ev) > 0
          /\ last'.ev[1] = <<"factory", 0>>)
         => /\ last'.n = 0
            /\ last'.err = ErrOpen
            /\ Len(last'.ev) = 1
            /\ UNCHANGED <<rbuf, buffers, closed, taken>>
      ]_vars

\* C5: the factory has failed at a change of bucket; the old buffer is
\* still the one in use, and open.
C5_Witness ==
    /\ last.op = "Write"
    /\ last.err = ErrOpen
    /\ rbuf.id # 0
    /\ rbuf.pos # Bucket
    /\ ~buffers[rbuf.id].fclosed

\* C6: on a buffer whose sink has not failed, the bytes the sink got
\* followed by the bytes still buffered are the inputs of the Writes that
\* returned on it, whole and one after the other.
C6_SerialOrder ==
    \A i \in 1..Len(buffers) :
       buffers[i].w.err = Nil => Stream(buffers[i]) = taken[i]

\* C6: two Writes have returned on one buffer, one went to the sink and one
\* is still buffered, while the timer callback is about to flush.
C6_Witness ==
    \E i \in 1..Len(buffers) :
       /\ buffers[i].w.err = Nil
       /\ Len(buffers[i].sink) > 0
       /\ Len(buffers[i].w.buf) > 0
       /\ Len(taken[i]) > MaxLen
       /\ buffers[i].cb = "flush"

\* C7, as stated: once closed is true no Write that returns afterwards
\* succeeds, and the factory is not called again. (A Close sets last, so a
\* Write in last on a closed writer returned after the Close.)
C7_NoWriteAfterClosed ==
    (closed /\ last.op = "Write")
       => /\ last.err # Nil
          /\ \A k \in 1..Len(last.ev) : last.ev[k][1] # "factory"

\* C8, as stated: no buffer gets Close more than once.
C8_CloseAtMostOnce ==
    \A i \in 1..Len(buffers) : buffers[i].closes <= 1

\* The calls of a BufferWriter so far are Writes, then one Flush.
EndsWithFlush ==
    /\ wpc = "idle"
    /\ Len(wops) > 0
    /\ wops[Len(wops)][1] = "Flush"

\* C9: with a sink that never fails, after a final Flush the sink holds
\* exactly the bytes written, in the order written, and nothing is
\* buffered.
C9_RoundTrip ==
    (EndsWithFlush /\ ~wfault)
       => /\ wsink = [i \in 1..Written(wops) |-> i]
          /\ Buffered(w) = 0

\* C9: an input that went through the loop of Write, then a Flush.
C9_Witness ==
    /\ EndsWithFlush
    /\ ~wfault
    /\ w.size = 2
    /\ wops = << <<"Write", 1>>, <<"Write", 4>>, <<"Flush", 0>> >>

\* The test's BufferWriter after the given Writes, its sink never failing.
AfterWrites(ops) ==
    w.size = TestCap /\ ~wfault /\ wpc = "idle" /\ wops = ops

\* C10, as stated: 0 bytes in the sink after the Write of 10 bytes, still 0
\* after the Write of 5 bytes, 30 after the Write of 15 bytes.
C10_AsStated ==
    /\ AfterWrites(<< <<"Write", 10>> >>) => Len(wsink) = 0
    /\ AfterWrites(<< <<"Write", 10>>, <<"Write", 5>> >>) => Len(wsink) = 0
    /\ AfterWrites(<< <<"Write", 10>>, <<"Write", 5>>, <<"Write", 15>> >>)
          => Len(wsink) = 30

\* C10, amended: 0 bytes in the sink after the Write of 10 bytes, 15 after
\* the Write of 5 bytes (the buffer was full: the loop flushes the 10, then
\* the 5), 30 after the Write of 15 bytes.
C10_Scenario ==
    /\ AfterWrites(<< <<"Write", 10>> >>) => Len(wsink) = 0
    /\ AfterWrites(<< <<"Write", 10>>, <<"Write", 5>> >>)
          => (Len(wsink) = 15 /\ Buffered(w) = 0)
    /\ AfterWrites(<< <<"Write", 10>>, <<"Write", 5>>, <<"Write", 15>> >>)
          => (Len(wsink) = 30 /\ Buffered(w) = 0)

\* C10: the three Writes of the scenario have returned.
C10_Witness ==
    AfterWrites(<< <<"Write", 10>>, <<"Write", 5>>, <<"Write", 15>> >>)

\* The numbers from..to, in order.
Run(from, to) == [i \in 1..(to - from + 1) |-> from + i - 1]

\* C11: with no error latched and a sink that has never failed, a Write
\* whose input fits in the room left (filling it exactly included) hands
\* nothing to the sink and is buffered whole; a Write whose input is longer
\* returns with nothing buffered, the sink having got the bytes buffered
\* before and then the whole input.
C11_FitsOrDrains ==
    [][/\ \A len \in Lens(w.size) :
            (BWCallWrite(len) /\ w.err = Nil /\ ~wfault')
            => IF len <= Available(w)
               THEN /\ wsink' = wsink
                    /\ w'.buf = w.buf \o Input(wops, len)
                    /\ wpc' = "idle"
                    /\ wret' = [nn |-> len, err |-> Nil]
               ELSE wpc' = "idle"
                    => /\ Buffered(w') = 0
                       /\ wsink' = wsink \o w.buf \o Input(wops, len)
                       /\ wret' = [nn |-> len, err |-> Nil]
       /\ (BWLoopStep /\ wpc' = "idle" /\ ~wfault')
            => /\ Buffered(w') = 0
               /\ wsink' = Run(1, Written(wops))
               /\ wret' = [nn |-> wops[Len(wops)][2], err |-> Nil]
      ]_vars

\* C11: a Write that filled the buffer exactly, then a Write of two bytes
\* that went through the loop, over a sink that never failed.
C11_Witness ==
    /\ ~wfault
    /\ wpc = "idle"
    /\ w.size = MaxCap
    /\ wops = << <<"Write", MaxCap>>, <<"Write", 2>> >>
    /\ wsink = Run(1, MaxCap + 2)

\* C12, as stated: Write terminates. While Write is in its loop, the next
\* turn changes something: it consumes input, or it ends the loop. (A turn
\* that leaves b, p and nn as they were is followed by the same turn, for
\* ever.)
C12_WriteLoopEnds ==
    wpc = "loop" => ENABLED <<BWLoopStep>>_vars

\* C13, as stated: once Close has returned on a buffer, no timer of that
\* buffer is scheduled (so that its callback cannot run again).
C13_TimerStaysStopped ==
    \A i \in 1..Len(buffers) :
       buffers[i].fclosed => buffers[i].timer # "armed"

\* A sink write has failed between the two states: some BufferWriter has
\* latched an error it did not have.
SinkFailedInStep ==
    \E i \in 1..Len(buffers') :
       /\ buffers'[i].w.err # Nil
       /\ i <= Len(buffers) => buffers[i].w.err = Nil

\* C14, as stated: a Write, Flush or Close of the Rollout during which a
\* sink write has failed returns an error.
C14_SinkFailureReported ==
    [][\A c \in Procs :
         (/\ (WriteBody(c) /\ pc'[c] = "idle") \/ Flush(c) \/ Close(c)
          /\ SinkFailedInStep)
         => last'.err # Nil
      ]_vars

\* C15, as stated: once the sink has answered a write with an error or a
\* short count, an error is latched and stays as it is, every Flush returns
\* it, and the sink gets nothing more.
C15_StickyAfterFault ==
    [][wfault
         => /\ w.err # Nil
            /\ w'.err = w.err
            /\ wsink' = wsink
            /\ BWCallFlush => wret'.err = w.err
      ]_vars

\* C15, for an error that is latched: it stays as it is, every Flush
\* returns it, no Write returns another error and the sink gets nothing
\* more.
LatchedErrorSticks ==
    [][w.err # Nil
         => /\ w'.err = w.err
            /\ wsink' = wsink
            /\ BWCallFlush => wret'.err = w.err
      ]_vars

\* The last call was a Write and it has returned.
WriteReturned ==
    /\ wpc = "idle"
    /\ Len(wops) > 0
    /\ wops[Len(wops)][1] = "Write"

\* C16, as stated: a Write that returns nn < len(p) returns an error too.
C16_NoSilentShortCount ==
    (WriteReturned /\ wret.nn < wops[Len(wops)][2]) => wret.err # Nil

\* Buffer i is open and in order: its file is not closed, the device works
\* and no error is latched.
OpenAndSound(i) ==
    /\ i \in 1..Len(buffers)
    /\ ~buffers[i].fclosed
    /\ ~broken
    /\ buffers[i].w.err = Nil

\* C17: on an open buffer a tick is always under way: its timer is armed, or
\* its callback is running and will arm the next one. And what an open
\* buffer holds while its sink works gets to the sink by the timer alone:
\* from a state where bytes are buffered the buffer comes to hold none
\* (they leave it only for the sink), unless it is closed or its sink fails
\* first.
C17_PeriodicFlush ==
    /\ [](\A i \in 1..Len(buffers) :
            ~buffers[i].fclosed
               => buffers[i].timer = "armed" \/ buffers[i].cb = "flush")
    /\ \A i \in BufIds :
          (OpenAndSound(i) /\ Buffered(buffers[i].w) > 0)
             ~> (i \in 1..Len(buffers)
                 /\ (\/ ~OpenAndSound(i)
                     \/ /\ Buffered(buffers[i].w) = 0
                        /\ buffers[i].sink = taken[i]))

\* C17: one byte was written and never flushed by a caller; the timer has
\* taken it to the sink and the next tick is scheduled.
C17_Witness ==
    /\ nwrites = 1
    /\ last.op = "Write"
    /\ last.n = 1
    /\ last.err = Nil
    /\ Len(buffers) = 1
    /\ OpenAndSound(1)
    /\ buffers[1].sink = Payload(1)
    /\ Buffered(buffers[1].w) = 0
    /\ buffers[1].timer = "armed"

\* C18, as stated: the Rollout calls Write and Flush only on buffers it has
\* not called Close on.
C18_NoUseAfterClose ==
    [][\A c \in Procs :
         ((WriteBody(c) /\ pc'[c] = "idle") \/ Flush(c))
         => \A k \in 1..Len(last'.ev) :
              (/\ last'.ev[k][1] \in {"write", "flush"}
               /\ last'.ev[k][2] \in 1..Len(buffers))
              => buffers[last'.ev[k][2]].closes = 0
      ]_vars

\* C19: the number of bytes buffered is never below 0 and never above the
\* capacity, whatever the calls and whatever the sink has answered.
C19_BufferedWithinCapacity ==
    /\ 0 <= Buffered(w)
    /\ Buffered(w) <= w.size
    /\ Available(w) >= 0

\* C19: the sink has answered a Flush with a short count, the bytes left
\* over were moved to the front, and a later Write has filled the buffer to
\* its capacity.
C19_Witness ==
    /\ wfault
    /\ w.err = ErrShortWrite
    /\ Len(wsink) > 0
    /\ w.size > 1
    /\ Buffered(w) = w.size
    /\ wret.nn > 0
    /\ WriteReturned

\* The adjusted timestamp of the claim: s + z for an interval of a day or
\* more, s otherwise.
Adjusted(s, i, z) == IF i >= RotateDaily THEN s + z ELSE s

\* floor(a / b) for b > 0: for a negative a, minus (-a) / b rounded up.
Floor(a, b) == IF a >= 0 THEN a \div b ELSE -(((-a) + b - 1) \div b)

\* C20, as stated: the bucket is floor((s + a) / i); and, the buckets being
\* i seconds long each, the time i seconds later lies in the next bucket.
C20_FloorBucket ==
    pdone => /\ ppos = Floor(Adjusted(ptime, pinterval, pzone), pinterval)
             /\ position(ptime + pinterval, pinterval, pzone) = ppos + 1

\* C20, for the times from the epoch on (adjusted timestamp not negative).
BucketFromEpochOn ==
    (pdone /\ Adjusted(ptime, pinterval, pzone) >= 0)
       => /\ ppos = Floor(Adjusted(ptime, pinterval, pzone), pinterval)
          /\ position(ptime + pinterval, pinterval, pzone) = ppos + 1

====
